---- MODULE Spec2Model ----
(***************************************************************************)
(* The wallet_backend canister (src/wallet_backend/src/lib.rs): a token    *)
(* ledger kept in stable storage.  Every entry point loads the whole       *)
(* ledger, works on the copy and, when it changes something, saves the     *)
(* whole ledger back.  Calls run to completion one at a time.              *)
(*                                                                         *)
(* Balances and the supply are u64 in the source.  The model keeps the     *)
(* fixed width but scales it to Width bits, so that the arithmetic at the  *)
(* edge of the range is exercised.  `+=` and `-=` on u64 wrap in a build   *)
(* without overflow checks and panic in a build with them; the build is    *)
(* fixed for a run and chosen freely in Init.                              *)
(***************************************************************************)
EXTENDS Integers, FiniteSets, Sequences, TLC

\* Number of distinct account identifiers callers use.
NumAccounts == 3

\* Bits of the balance type of the model (64 in the source).
Width == 2

AccountIds == 1..NumAccounts

\* Fills the argument slot of a call that takes no account identifier there:
\* an identifier no caller uses.
NoId == NumAccounts + 1

Modulus == 2 ^ Width

U64Max == Modulus - 1

U64 == 0..U64Max

\* Where the exact count of minted amounts stops: beyond anything a u64 holds.
MintedCap == 2 * Modulus

VARIABLES
    stable,           \* stable storage: <<>> before any save, else <<ledger>>
    overflow_checks,  \* TRUE: the build panics on u64 overflow; FALSE: it wraps
    last,             \* record of the call that just completed: arguments,
                      \* result and the store it started from; NoCall once
                      \* the record has been dropped
    minted,           \* sum of the amounts of the mint calls completed since
                      \* the last init, counted exactly up to MintedCap
    procs,            \* step by step: the calls in progress, each with its
                      \* position and its in-memory copy of the ledger
    calls             \* step by step: number of calls started

vars == <<stable, overflow_checks, last, minted, procs, calls>>

----------------------------------------------------------------------------
(* Data *)

Account(id, balance) == [id |-> id, balance |-> balance]

EmptyAccounts == [id \in {} |-> Account(id, 0)]

\* Ledger::default(): no accounts, zero supply.
Ledger_default == [accounts |-> EmptyAccounts, total_supply |-> 0]

\* storage::stable_restore().unwrap_or_default().0
load_ledger(st) == IF Len(st) = 0 THEN Ledger_default ELSE st[1]

\* storage::stable_save((ledger,)).unwrap()
save_ledger(ledger) == <<ledger>>

\* a + b on u64: the wrapped value, and whether the exact sum left the range.
add_u64(a, b) == [value |-> (a + b) % Modulus, overflow |-> a + b > U64Max]

\* a - b on u64: the wrapped value, and whether the exact difference left the range.
sub_u64(a, b) == [value |-> (a - b + Modulus) % Modulus, overflow |-> a < b]

\* accounts.entry(id).or_insert(Account { id, balance: 0 })
or_insert(accounts, id) ==
    IF id \in DOMAIN accounts
    THEN accounts
    ELSE [k \in DOMAIN accounts \cup {id} |->
            IF k = id THEN Account(id, 0) ELSE accounts[k]]

\* Sum of the balances of the accounts whose ids are in S.
RECURSIVE SumBalances(_, _)
SumBalances(accounts, S) ==
    IF S = {} THEN 0
    ELSE LET k == CHOOSE x \in S : TRUE
         IN accounts[k].balance + SumBalances(accounts, S \ {k})

TotalBalances(ledger) == SumBalances(ledger.accounts, DOMAIN ledger.accounts)

----------------------------------------------------------------------------
(* Outcomes of a call: the result, the value a query returns, whether the  *)
(* debit left the u64 range, and the contents of stable storage afterwards.*)

Outcome(ret, value, underflow, store) ==
    [ret |-> ret, value |-> value, underflow |-> underflow, store |-> store]

Ok == "Ok"

AccountNotFound == "Sender account not found"

InsufficientBalance == "Insufficient balance"

Panic == "panic"

----------------------------------------------------------------------------
(* Entry points, as functions of the store contents and the arguments *)

\* init leaving a ledger that is already in stable storage alone.
init_keeps_existing(st) ==
    Outcome(Ok, 0, FALSE, IF Len(st) = 0 THEN save_ledger(Ledger_default) ELSE st)

\* #[init] fn init()
init(st) == Outcome(Ok, 0, FALSE, save_ledger(Ledger_default))

\* mint restoring the ledger with unwrap(): it panics when nothing has been
\* saved to stable storage yet.
mint_needs_saved_ledger(st, account_id, amount, checks) ==
    LET ledger == load_ledger(st)
        inserted == or_insert(ledger.accounts, account_id)
        balance == add_u64(inserted[account_id].balance, amount)
        supply == add_u64(ledger.total_supply, amount)
        updated == [accounts |-> [inserted EXCEPT ![account_id].balance = balance.value],
                    total_supply |-> supply.value]
    IN  IF Len(st) = 0 \/ (checks /\ (balance.overflow \/ supply.overflow))
        THEN Outcome(Panic, 0, FALSE, st)
        ELSE Outcome(Ok, 0, FALSE, save_ledger(updated))

\* mint building the saved account map from the minted account alone.
mint_on_default(st, account_id, amount, checks) ==
    LET ledger == load_ledger(st)
        own == [k \in DOMAIN ledger.accounts \cap {account_id} |-> ledger.accounts[k]]
        inserted == or_insert(own, account_id)
        balance == add_u64(inserted[account_id].balance, amount)
        supply == add_u64(ledger.total_supply, amount)
        updated == [accounts |-> [inserted EXCEPT ![account_id].balance = balance.value],
                    total_supply |-> supply.value]
    IN  IF checks /\ (balance.overflow \/ supply.overflow)
        THEN Outcome(Panic, 0, FALSE, st)
        ELSE Outcome(Ok, 0, FALSE, save_ledger(updated))

\* #[update] fn mint(account_id, amount)
mint(st, account_id, amount, checks) ==
    LET ledger == load_ledger(st)
        inserted == or_insert(ledger.accounts, account_id)
        balance == add_u64(inserted[account_id].balance, amount)
        supply == add_u64(ledger.total_supply, amount)
        updated == [accounts |-> [inserted EXCEPT ![account_id].balance = balance.value],
                    total_supply |-> supply.value]
    IN  IF checks /\ (balance.overflow \/ supply.overflow)
        THEN Outcome(Panic, 0, FALSE, st)
        ELSE Outcome(Ok, 0, FALSE, save_ledger(updated))

\* The balance check with its bound off by one.
insufficient_off_by_one(balance, amount) == balance + 1 < amount

\* if from_account.balance < amount
insufficient(balance, amount) == balance < amount

\* The success path with the credit computed from the recipient's balance as
\* it was loaded, before the debit was applied.
transfer_apply_stale_credit(st, from, to, amount, checks) ==
    LET ledger == load_ledger(st)
        debit == sub_u64(ledger.accounts[from].balance, amount)
        debited == [ledger.accounts EXCEPT ![from].balance = debit.value]
        inserted == or_insert(debited, to)
        credit == add_u64(or_insert(ledger.accounts, to)[to].balance, amount)
        credited == [inserted EXCEPT ![to].balance = credit.value]
    IN  IF checks /\ (debit.overflow \/ credit.overflow)
        THEN Outcome(Panic, 0, debit.overflow, st)
        ELSE Outcome(Ok, 0, debit.overflow,
                     save_ledger([ledger EXCEPT !.accounts = credited]))

\* The success path dropping the sender's entry when the debit empties it.
transfer_apply_removes_empty(st, from, to, amount, checks) ==
    LET ledger == load_ledger(st)
        debit == sub_u64(ledger.accounts[from].balance, amount)
        debited == [ledger.accounts EXCEPT ![from].balance = debit.value]
        inserted == or_insert(debited, to)
        credit == add_u64(inserted[to].balance, amount)
        credited == [inserted EXCEPT ![to].balance = credit.value]
        kept == {k \in DOMAIN credited : credited[k].balance > 0 \/ k # from}
    IN  IF checks /\ (debit.overflow \/ credit.overflow)
        THEN Outcome(Panic, 0, debit.overflow, st)
        ELSE Outcome(Ok, 0, debit.overflow,
                     save_ledger([ledger EXCEPT !.accounts = [k \in kept |-> credited[k]]]))

\* The success path returning early, without touching the ledger, when the
\* amount is 0.
transfer_apply_skips_zero(st, from, to, amount, checks) ==
    LET ledger == load_ledger(st)
        debit == sub_u64(ledger.accounts[from].balance, amount)
        debited == [ledger.accounts EXCEPT ![from].balance = debit.value]
        inserted == or_insert(debited, to)
        credit == add_u64(inserted[to].balance, amount)
        credited == [inserted EXCEPT ![to].balance = credit.value]
    IN  IF amount = 0
        THEN Outcome(Ok, 0, FALSE, st)
        ELSE IF checks /\ (debit.overflow \/ credit.overflow)
        THEN Outcome(Panic, 0, debit.overflow, st)
        ELSE Outcome(Ok, 0, debit.overflow,
                     save_ledger([ledger EXCEPT !.accounts = credited]))

\* transfer past its two checks: the debit, the credit and the save.
transfer_apply(st, from, to, amount, checks) ==
    LET ledger == load_ledger(st)
        debit == sub_u64(ledger.accounts[from].balance, amount)
        debited == [ledger.accounts EXCEPT ![from].balance = debit.value]
        inserted == or_insert(debited, to)
        credit == add_u64(inserted[to].balance, amount)
        credited == [inserted EXCEPT ![to].balance = credit.value]
    IN  IF checks /\ debit.overflow
        THEN Outcome(Panic, 0, TRUE, st)
        ELSE IF checks /\ credit.overflow
        THEN Outcome(Panic, 0, FALSE, st)
        ELSE Outcome(Ok, 0, debit.overflow,
                     save_ledger([ledger EXCEPT !.accounts = credited]))

\* transfer reading a missing sender's balance as 0 and checking the balance
\* before it checks that the sender exists.
transfer_balance_first(st, from, to, amount, checks) ==
    LET ledger == load_ledger(st)
        balance == IF from \in DOMAIN ledger.accounts
                   THEN ledger.accounts[from].balance
                   ELSE 0
    IN  IF insufficient(balance, amount)
        THEN Outcome(InsufficientBalance, 0, FALSE, st)
        ELSE IF from \notin DOMAIN ledger.accounts
        THEN Outcome(AccountNotFound, 0, FALSE, st)
        ELSE transfer_apply(st, from, to, amount, checks)

\* transfer creating the recipient's entry before the balance check and
\* saving the ledger on the way out of a failed check.
transfer_inserts_first(st, from, to, amount, checks) ==
    LET ledger == load_ledger(st)
        inserted == [ledger EXCEPT !.accounts = or_insert(@, to)]
    IN  IF from \notin DOMAIN ledger.accounts
        THEN Outcome(AccountNotFound, 0, FALSE, st)
        ELSE IF insufficient(ledger.accounts[from].balance, amount)
        THEN Outcome(InsufficientBalance, 0, FALSE, save_ledger(inserted))
        ELSE transfer_apply(st, from, to, amount, checks)

\* #[update] fn transfer(from, to, amount) -> Result<(), String>
transfer(st, from, to, amount, checks) ==
    LET ledger == load_ledger(st)
    IN  IF from \notin DOMAIN ledger.accounts
        THEN Outcome(AccountNotFound, 0, FALSE, st)
        ELSE IF insufficient(ledger.accounts[from].balance, amount)
        THEN Outcome(InsufficientBalance, 0, FALSE, st)
        ELSE transfer_apply(st, from, to, amount, checks)

\* balance_of looking the account up with entry().or_insert() and saving.
balance_of_inserting(st, account_id) ==
    LET ledger == load_ledger(st)
        inserted == [ledger EXCEPT !.accounts = or_insert(@, account_id)]
    IN  Outcome(Ok, inserted.accounts[account_id].balance, FALSE,
                save_ledger(inserted))

\* #[query] fn balance_of(account_id) -> u64
balance_of(st, account_id) ==
    LET ledger == load_ledger(st)
    IN  Outcome(Ok,
                IF account_id \in DOMAIN ledger.accounts
                THEN ledger.accounts[account_id].balance
                ELSE 0,
                FALSE, st)

\* total_supply moving the counter out of the ledger and saving what is left.
total_supply_taking(st) ==
    LET ledger == load_ledger(st)
    IN  Outcome(Ok, ledger.total_supply, FALSE,
                save_ledger([ledger EXCEPT !.total_supply = 0]))

\* #[query] fn total_supply() -> u64
total_supply(st) == Outcome(Ok, load_ledger(st).total_supply, FALSE, st)

----------------------------------------------------------------------------
(* The canister as a state machine: one action per entry point *)

Queries == {"balance_of", "total_supply"}

NoCall ==
    [op |-> "none", from |-> NoId, to |-> NoId, amount |-> 0,
     ret |-> Ok, value |-> 0, underflow |-> FALSE, pre |-> <<>>,
     again |-> FALSE, earlier |-> 0]

\* The amounts minted since the last init, after a call with this outcome.
Minted(op, amount, out) ==
    IF op = "init" THEN 0
    ELSE IF op = "mint" /\ out.ret = Ok
    THEN IF minted + amount < MintedCap THEN minted + amount ELSE MintedCap
    ELSE minted

\* A call runs to completion: storage takes the outcome's contents, and the
\* call is recorded together with the store it started from.  `again` says
\* that the call repeats the query recorded before it, `earlier` is the
\* value that query returned.
Complete(op, from, to, amount, out, again) ==
    /\ stable' = out.store
    /\ last' = [op |-> op, from |-> from, to |-> to, amount |-> amount,
                ret |-> out.ret, value |-> out.value,
                underflow |-> out.underflow, pre |-> stable,
                again |-> again, earlier |-> IF again THEN last.value ELSE 0]
    /\ minted' = Minted(op, amount, out)
    /\ UNCHANGED <<overflow_checks, procs, calls>>

InitCall ==
    /\ last = NoCall
    /\ Complete("init", NoId, NoId, 0, init(stable), FALSE)

MintCall ==
    /\ last = NoCall
    /\ \E account_id \in AccountIds, amount \in U64 :
          Complete("mint", account_id, NoId, amount,
                   mint(stable, account_id, amount, overflow_checks), FALSE)

TransferCall ==
    /\ last = NoCall
    /\ \E from \in AccountIds, to \in AccountIds, amount \in U64 :
          Complete("transfer", from, to, amount,
                   transfer(stable, from, to, amount, overflow_checks), FALSE)

BalanceOfCall ==
    /\ last = NoCall
    /\ \E account_id \in AccountIds :
          Complete("balance_of", account_id, NoId, 0,
                   balance_of(stable, account_id), FALSE)

TotalSupplyCall ==
    /\ last = NoCall
    /\ Complete("total_supply", NoId, NoId, 0, total_supply(stable), FALSE)

\* The query that just completed is called again, with the same argument and
\* no other call in between.
BalanceOfAgain ==
    /\ last.op = "balance_of"
    /\ Complete("balance_of", last.from, NoId, 0,
                balance_of(stable, last.from), TRUE)

TotalSupplyAgain ==
    /\ last.op = "total_supply"
    /\ Complete("total_supply", NoId, NoId, 0, total_supply(stable), TRUE)

\* The record of the completed call is dropped; the canister state stays.
\* Any call can follow.
Forget ==
    /\ last # NoCall
    /\ last' = NoCall
    /\ UNCHANGED <<stable, overflow_checks, minted, procs, calls>>

\* The mutating calls that can be in progress together in the step-by-step
\* view, and the record of a slot with no call in it.
Procs == {1, 2}

IdleProc ==
    [pc |-> "idle", op |-> "none", from |-> NoId, to |-> NoId, amount |-> 0,
     start |-> <<>>, ledger |-> Ledger_default, wrote |-> <<>>, ret |-> Ok,
     raced |-> FALSE]

Init ==
    /\ stable = <<>>
    /\ overflow_checks \in BOOLEAN
    /\ last = NoCall
    /\ minted = 0
    /\ procs = [p \in Procs |-> IdleProc]
    /\ calls = 0

Next ==
    \/ InitCall
    \/ MintCall
    \/ TransferCall
    \/ BalanceOfCall
    \/ TotalSupplyCall
    \/ BalanceOfAgain
    \/ TotalSupplyAgain
    \/ Forget

Spec == Init /\ [][Next]_vars

----------------------------------------------------------------------------
(* The same mint and transfer, statement by statement.  A call loads the   *)
(* ledger into memory, changes the copy one statement at a time and saves  *)
(* it; nothing in the code keeps a second call from starting in between.   *)
(* The arguments come from the first StepAccounts ids and from the amounts *)
(* 0, 1 and the largest u64; MaxCalls calls are started.                   *)

StepAccounts == 2

MaxCalls == 2

StepIds == 1..StepAccounts

StepAmounts == {0, 1, U64Max}

\* A call that has loaded the ledger and not yet saved it or given up.
InMemory(q) == procs[q].pc \in {"loaded", "checked", "credited", "debited", "mutated"}

\* let mut ledger = load_ledger();  (a call starts)
Load(p, op, from, to, amount) ==
    /\ procs[p].pc = "idle"
    /\ calls < MaxCalls
    /\ calls' = calls + 1
    /\ procs' = [q \in Procs |->
                    IF q = p
                    THEN [pc |-> "loaded", op |-> op, from |-> from, to |-> to,
                          amount |-> amount, start |-> stable,
                          ledger |-> load_ledger(stable), wrote |-> <<>>,
                          ret |-> Ok, raced |-> \E r \in Procs \ {p} : InMemory(r)]
                    ELSE IF InMemory(q)
                    THEN [procs[q] EXCEPT !.raced = TRUE]
                    ELSE procs[q]]
    /\ UNCHANGED <<stable, overflow_checks, last, minted>>

LoadMint(p) ==
    \E account_id \in StepIds, amount \in StepAmounts :
        Load(p, "mint", account_id, NoId, amount)

LoadTransfer(p) ==
    \E from \in StepIds, to \in StepIds, amount \in StepAmounts :
        Load(p, "transfer", from, to, amount)

\* The call in slot p moves on with these fields changed.
Move(p, pc, ledger, ret) ==
    /\ procs' = [procs EXCEPT ![p].pc = pc, ![p].ledger = ledger, ![p].ret = ret]
    /\ UNCHANGED <<calls, stable, overflow_checks, last, minted>>

\* mint: entry(account_id).or_insert(..); account.balance += amount;
MintBalance(p) ==
    /\ procs[p].pc = "loaded" /\ procs[p].op = "mint"
    /\ LET me == procs[p]
           inserted == or_insert(me.ledger.accounts, me.from)
           balance == add_u64(inserted[me.from].balance, me.amount)
       IN  IF overflow_checks /\ balance.overflow
           THEN Move(p, "trapped", me.ledger, Panic)
           ELSE Move(p, "credited",
                     [me.ledger EXCEPT !.accounts =
                         [inserted EXCEPT ![me.from].balance = balance.value]], Ok)

\* mint: ledger.total_supply += amount;
MintSupply(p) ==
    /\ procs[p].pc = "credited" /\ procs[p].op = "mint"
    /\ LET me == procs[p]
           supply == add_u64(me.ledger.total_supply, me.amount)
       IN  IF overflow_checks /\ supply.overflow
           THEN Move(p, "trapped", me.ledger, Panic)
           ELSE Move(p, "mutated", [me.ledger EXCEPT !.total_supply = supply.value], Ok)

\* transfer: get_mut(&from).ok_or(..)?; if from_account.balance < amount { return Err }
TransferCheck(p) ==
    /\ procs[p].pc = "loaded" /\ procs[p].op = "transfer"
    /\ LET me == procs[p]
       IN  IF me.from \notin DOMAIN me.ledger.accounts
           THEN Move(p, "failed", me.ledger, AccountNotFound)
           ELSE IF insufficient(me.ledger.accounts[me.from].balance, me.amount)
           THEN Move(p, "failed", me.ledger, InsufficientBalance)
           ELSE Move(p, "checked", me.ledger, Ok)

\* The debit written through to stable storage as soon as it is made.
TransferDebitSaving(p) ==
    /\ procs[p].pc = "checked"
    /\ LET me == procs[p]
           debit == sub_u64(me.ledger.accounts[me.from].balance, me.amount)
           debited == [me.ledger EXCEPT !.accounts[me.from].balance = debit.value]
       IN  /\ stable' = save_ledger(debited)
           /\ procs' = [procs EXCEPT ![p].pc = "debited", ![p].ledger = debited,
                                     ![p].wrote = Append(@, save_ledger(debited))]
    /\ UNCHANGED <<calls, overflow_checks, last, minted>>

\* transfer: from_account.balance -= amount;
TransferDebit(p) ==
    /\ procs[p].pc = "checked"
    /\ LET me == procs[p]
           debit == sub_u64(me.ledger.accounts[me.from].balance, me.amount)
       IN  IF overflow_checks /\ debit.overflow
           THEN Move(p, "trapped", me.ledger, Panic)
           ELSE Move(p, "debited",
                     [me.ledger EXCEPT !.accounts[me.from].balance = debit.value], Ok)

\* transfer: entry(to).or_insert(..); to_account.balance += amount;
TransferCredit(p) ==
    /\ procs[p].pc = "debited"
    /\ LET me == procs[p]
           inserted == or_insert(me.ledger.accounts, me.to)
           credit == add_u64(inserted[me.to].balance, me.amount)
       IN  IF overflow_checks /\ credit.overflow
           THEN Move(p, "trapped", me.ledger, Panic)
           ELSE Move(p, "mutated",
                     [me.ledger EXCEPT !.accounts =
                         [inserted EXCEPT ![me.to].balance = credit.value]], Ok)

\* A save that writes the accounts from memory but applies the call's change
\* of total_supply to the counter that is in stable storage now.
SavedSupplyInPlace(me, store) ==
    <<[accounts |-> me.ledger.accounts,
       total_supply |-> (load_ledger(store).total_supply + me.ledger.total_supply
                          + Modulus - load_ledger(me.start).total_supply) % Modulus]>>

\* What a save of this in-memory ledger leaves in stable storage.
Saved(me, store) == save_ledger(me.ledger)

\* save_ledger(&ledger);  (and the call returns Ok)
Save(p) ==
    /\ procs[p].pc = "mutated"
    /\ LET me == procs[p]
       IN  /\ stable' = Saved(me, stable)
           /\ procs' = [procs EXCEPT ![p].pc = "done",
                                     ![p].wrote = Append(@, Saved(me, stable))]
           /\ minted' = IF me.op = "mint"
                        THEN Minted("mint", me.amount, [ret |-> Ok])
                        ELSE minted
    /\ UNCHANGED <<calls, overflow_checks, last>>

\* The call has returned (or trapped); its memory is gone.
Return(p) ==
    /\ procs[p].pc \in {"done", "failed", "trapped"}
    /\ procs' = [procs EXCEPT ![p] = IdleProc]
    /\ UNCHANGED <<calls, stable, overflow_checks, last, minted>>

NextSteps ==
    \E p \in Procs :
        \/ LoadMint(p)
        \/ LoadTransfer(p)
        \/ MintBalance(p)
        \/ MintSupply(p)
        \/ TransferCheck(p)
        \/ TransferDebit(p)
        \/ TransferCredit(p)
        \/ Save(p)
        \/ Return(p)

SpecSteps == Init /\ [][NextSteps]_vars

----------------------------------------------------------------------------
(* Views of the state used by the properties *)

\* The ledger a call would load now, and the one the last call loaded.
Now == load_ledger(stable)

Before == load_ledger(last.pre)

Stored(ledger, id) == id \in DOMAIN ledger.accounts

\* What balance_of reports for id on a ledger.
Bal(ledger, id) == IF Stored(ledger, id) THEN ledger.accounts[id].balance ELSE 0

TypeOK ==
    /\ Len(stable) <= 1
    /\ DOMAIN Now.accounts \subseteq AccountIds
    /\ \A id \in DOMAIN Now.accounts :
          Now.accounts[id].id = id /\ Now.accounts[id].balance \in U64
    /\ Now.total_supply \in U64

----------------------------------------------------------------------------
(* Properties *)

LastIs(op) == last.op = op

\* C1 (I1): in every reachable state the persisted total_supply equals the
\* sum of the balances of all stored accounts.
C1_SupplyEqualsSum == Now.total_supply = TotalBalances(Now)

\* C2: transfer succeeds exactly when the sender is stored with a balance of
\* at least the amount; a successful transfer between two different accounts
\* takes exactly the amount from the sender, adds exactly the amount to the
\* recipient (0 before if it was not stored) and leaves total_supply alone.
C2_TransferEffect ==
    LastIs("transfer") =>
        /\ last.ret = Ok <=>
              (Stored(Before, last.from) /\ Bal(Before, last.from) >= last.amount)
        /\ (last.ret = Ok /\ last.from # last.to) =>
              /\ Bal(Now, last.from) = Bal(Before, last.from) - last.amount
              /\ Bal(Now, last.to) = Bal(Before, last.to) + last.amount
              /\ Now.total_supply = Before.total_supply

\* C3: after a mint(A, n) that completed, balance_of(A) and total_supply()
\* are each exactly n more than before the call.
C3_MintAddsExactly ==
    (LastIs("mint") /\ last.ret = Ok) =>
        /\ Bal(Now, last.from) = Bal(Before, last.from) + last.amount
        /\ Now.total_supply = Before.total_supply + last.amount

\* Some stored account, and the largest balance stored.
SomeStored(ledger) == DOMAIN ledger.accounts # {}

AllBelow(ledger, n) == \A id \in DOMAIN ledger.accounts : ledger.accounts[id].balance < n

\* C4: a transfer from a sender that is not stored fails with the
\* account-not-found error whatever the amount (0, or more than any stored
\* balance: the sender check comes before the balance check) and leaves the
\* accounts, their balances and total_supply as they were.
C4_UnknownSenderRejected ==
    (LastIs("transfer") /\ ~Stored(Before, last.from)) =>
        /\ last.ret = AccountNotFound
        /\ Now = Before

\* C4 happens: a transfer of more than any stored balance, from an id that is
\* not stored, on a ledger that has accounts, was rejected.
C4_Witness ==
    /\ LastIs("transfer")
    /\ ~Stored(Before, last.from)
    /\ SomeStored(Before)
    /\ AllBelow(Before, last.amount)
    /\ last.ret = AccountNotFound

\* C5: a transfer from a stored sender whose balance is below the amount
\* fails with the insufficient-balance error and leaves the persisted ledger
\* as it was; a recipient that was not stored is still not stored, so a
\* transfer with it as the sender fails with account-not-found.
C5_InsufficientRejected ==
    (LastIs("transfer") /\ Stored(Before, last.from)
        /\ Bal(Before, last.from) < last.amount) =>
        /\ last.ret = InsufficientBalance
        /\ stable = last.pre
        /\ ~Stored(Before, last.to) =>
              /\ ~Stored(Now, last.to)
              /\ \A to \in AccountIds, amount \in U64 :
                    transfer(stable, last.to, to, amount, overflow_checks).ret
                        = AccountNotFound

\* C5 happens: a transfer to an id that is not stored was rejected for
\* insufficient balance.
C5_Witness ==
    /\ LastIs("transfer")
    /\ Stored(Before, last.from)
    /\ Bal(Before, last.from) < last.amount
    /\ ~Stored(Before, last.to)
    /\ last.ret = InsufficientBalance

\* C6 (I2): every stored balance is >= 0, and the debit of a transfer is
\* executed only with a sender balance >= amount, so the subtraction never
\* leaves the range of the unsigned balance.
C6_NoUnderflow ==
    /\ \A id \in DOMAIN Now.accounts : Now.accounts[id].balance >= 0
    /\ ~last.underflow
    /\ (LastIs("transfer") /\ last.ret \notin {AccountNotFound, InsufficientBalance}) =>
          Bal(Before, last.from) >= last.amount

\* C6 happens: a transfer debited a sender's whole, non-zero balance.
C6_Witness ==
    /\ LastIs("transfer")
    /\ last.ret = Ok
    /\ last.from # last.to
    /\ last.amount > 0
    /\ Bal(Before, last.from) = last.amount
    /\ Bal(Now, last.from) = 0

\* C7: mint has no failure path: whatever the ledger, the account id and the
\* amount, it completes normally and persists the updated ledger, also when
\* balance + amount or total_supply + amount exceeds the range.
C7_MintNeverAborts ==
    LastIs("mint") =>
        /\ last.ret = Ok
        /\ Len(stable) = 1
        /\ Stored(Now, last.from)

\* C8: balance_of returns 0 for an id that is not stored and the stored
\* balance otherwise, and creates no account: after balance_of(X) on an X
\* that is not stored, transfer(X, Y, 0) still fails with account-not-found.
C8_BalanceOf ==
    LastIs("balance_of") =>
        /\ last.value = IF Stored(Before, last.from)
                        THEN Before.accounts[last.from].balance
                        ELSE 0
        /\ ~Stored(Before, last.from) =>
              /\ ~Stored(Now, last.from)
              /\ \A to \in AccountIds :
                    transfer(stable, last.from, to, 0, overflow_checks).ret
                        = AccountNotFound

\* C8 happens: balance_of was asked about an id that is not stored, on a
\* ledger that has accounts, and returned 0.
C8_Witness ==
    /\ LastIs("balance_of")
    /\ ~Stored(Before, last.from)
    /\ SomeStored(Before)
    /\ last.value = 0

\* C9: a self-transfer is not special-cased: it fails with account-not-found
\* when the account is not stored, with insufficient-balance when its
\* balance is below the amount, and otherwise succeeds and leaves every
\* balance and total_supply exactly as before.
C9_SelfTransfer ==
    (LastIs("transfer") /\ last.from = last.to) =>
        /\ ~Stored(Before, last.from) => last.ret = AccountNotFound
        /\ (Stored(Before, last.from) /\ Bal(Before, last.from) < last.amount) =>
              last.ret = InsufficientBalance
        /\ (Stored(Before, last.from) /\ Bal(Before, last.from) >= last.amount) =>
              /\ last.ret = Ok
              /\ Now = Before

\* C9 happens: an account transferred a non-zero amount to itself, with
\* another account stored beside it.
C9_Witness ==
    /\ LastIs("transfer")
    /\ last.from = last.to
    /\ last.amount > 0
    /\ last.ret = Ok
    /\ Cardinality(DOMAIN Before.accounts) > 1

\* C10: balance_of and total_supply never write the persisted ledger, and a
\* query repeated with no other call in between returns the value it
\* returned before, however often it is repeated.
C10_QueriesReadOnly ==
    last.op \in Queries =>
        /\ stable = last.pre
        /\ last.again => last.value = last.earlier

\* C10 happens: total_supply was called twice in a row on a ledger with a
\* non-zero supply.
C10_Witness ==
    /\ LastIs("total_supply")
    /\ last.again
    /\ last.value > 0
    /\ last.earlier = last.value

\* C11: init always leaves the persisted ledger empty, whatever was stored
\* before: afterwards balance_of is 0 for every id, total_supply is 0, and
\* every account that was stored fails as a sender with account-not-found.
C11_InitResets ==
    LastIs("init") =>
        /\ Len(stable) = 1
        /\ Now = Ledger_default
        /\ total_supply(stable).value = 0
        /\ \A id \in AccountIds : balance_of(stable, id).value = 0
        /\ \A from \in DOMAIN Before.accounts, to \in AccountIds, amount \in U64 :
              transfer(stable, from, to, amount, overflow_checks).ret = AccountNotFound

\* C11 happens: init was called on a ledger with accounts and a non-zero
\* supply.
C11_Witness ==
    /\ LastIs("init")
    /\ SomeStored(Before)
    /\ Before.total_supply > 0
    /\ \E id \in DOMAIN Before.accounts : Before.accounts[id].balance > 0

\* C12: mint and transfer never delete an account: every id stored before
\* such a call is stored after it, also with balance 0; and a stored account
\* with balance 0 can still send 0 (success), while sending 1 fails with
\* insufficient-balance, not account-not-found.
C12_AccountsStay ==
    /\ last.op \in {"mint", "transfer"} =>
          DOMAIN Before.accounts \subseteq DOMAIN Now.accounts
    /\ \A from \in DOMAIN Now.accounts, to \in AccountIds :
          Now.accounts[from].balance = 0 =>
              /\ transfer(stable, from, to, 0, overflow_checks).ret = Ok
              /\ transfer(stable, from, to, 1, overflow_checks).ret = InsufficientBalance

\* C12 happens: an account transferred its whole, non-zero balance to another
\* account and is still stored, with balance 0.
C12_Witness ==
    /\ LastIs("transfer")
    /\ last.ret = Ok
    /\ last.from # last.to
    /\ last.amount > 0
    /\ Stored(Now, last.from)
    /\ Now.accounts[last.from].balance = 0

\* C15: with nothing in stable storage yet, every entry point behaves as on
\* the empty ledger: balance_of and total_supply return 0, transfer fails
\* with account-not-found, and mint(A, n) succeeds and persists a ledger with
\* the one account A of balance n and total_supply n.
C15_NothingPersisted ==
    Len(last.pre) = 0 =>
        /\ LastIs("balance_of") => last.value = 0 /\ Len(stable) = 0
        /\ LastIs("total_supply") => last.value = 0 /\ Len(stable) = 0
        /\ LastIs("transfer") => last.ret = AccountNotFound /\ Len(stable) = 0
        /\ LastIs("mint") =>
              /\ last.ret = Ok
              /\ stable = <<[accounts |-> [id \in {last.from} |-> Account(id, last.amount)],
                            total_supply |-> last.amount]>>

\* C15 happens: the first call ever was a mint of a non-zero amount, with
\* nothing in stable storage.
C15_Witness ==
    /\ LastIs("mint")
    /\ Len(last.pre) = 0
    /\ last.amount > 0
    /\ Len(stable) = 1

\* C16: a successful transfer creates the recipient's account, also when the
\* amount is 0: a recipient that was not stored is stored afterwards with the
\* amount as its balance, and can then send 0, which it could not before.
C16_RecipientCreated ==
    (LastIs("transfer") /\ last.ret = Ok /\ ~Stored(Before, last.to)) =>
        /\ Stored(Now, last.to)
        /\ Bal(Now, last.to) = last.amount
        /\ \A to \in AccountIds :
              /\ transfer(last.pre, last.to, to, 0, overflow_checks).ret = AccountNotFound
              /\ transfer(stable, last.to, to, 0, overflow_checks).ret = Ok

\* C16 happens: a transfer of 0 to an id that was not stored succeeded.
C16_Witness ==
    /\ LastIs("transfer")
    /\ last.ret = Ok
    /\ last.amount = 0
    /\ ~Stored(Before, last.to)

\* C18: the credit of a transfer never overflows: every balance is at most
\* total_supply, which is at most the largest u64, so in every transfer that
\* passes its checks the recipient's balance + amount stays in range and the
\* addition neither wraps nor aborts.
C18_CreditInRange ==
    /\ \A id \in DOMAIN Now.accounts : Now.accounts[id].balance <= Now.total_supply
    /\ Now.total_supply <= U64Max
    /\ (LastIs("transfer") /\ last.from # last.to
            /\ last.ret \notin {AccountNotFound, InsufficientBalance}) =>
          /\ Bal(Before, last.to) + last.amount <= U64Max
          /\ last.ret = Ok
          /\ Bal(Now, last.to) = Bal(Before, last.to) + last.amount

\* The record of an account id in a ledger, or the marker for "not stored".
Entry(ledger, id) == IF Stored(ledger, id) THEN <<ledger.accounts[id]>> ELSE <<>>

\* C19: mint(A, n) changes no account other than A, and a successful
\* transfer(A, B, n) changes no account other than A and B: every other id is
\* stored or not as before, with the balance it had.
C19_Frame ==
    /\ (LastIs("mint") /\ last.ret = Ok) =>
          \A id \in AccountIds \ {last.from} : Entry(Now, id) = Entry(Before, id)
    /\ (LastIs("transfer") /\ last.ret = Ok) =>
          \A id \in AccountIds \ {last.from, last.to} : Entry(Now, id) = Entry(Before, id)

\* C19 happens: a mint to an account left another account with a non-zero
\* balance as it was.
C19_Witness ==
    /\ LastIs("mint")
    /\ last.ret = Ok
    /\ last.amount > 0
    /\ \E id \in DOMAIN Before.accounts \ {last.from} :
          /\ Before.accounts[id].balance > 0
          /\ Entry(Now, id) = Entry(Before, id)

\* C17: no update is lost when calls run one at a time: total_supply equals
\* the sum of the amounts of all mint calls completed since the last init (or
\* since the start), however many transfers succeeded or failed in between.
C17_SupplyIsMinted == Now.total_supply = minted

\* What the call in a slot does when it runs as one step.
Atomic(me) ==
    IF me.op = "mint"
    THEN mint(me.start, me.from, me.amount, overflow_checks)
    ELSE transfer(me.start, me.from, me.to, me.amount, overflow_checks)

\* total_supply = sum of the balances, modulo the width of the counter.
SupplyIsSumModulo(ledger) == ledger.total_supply = TotalBalances(ledger) % Modulus

\* C13: with load, the changes in memory and the save as separate steps, a
\* call writes stable storage at most once, and what it writes is the ledger
\* after the whole call (a call that fails or traps writes nothing); so no
\* persisted ledger shows a debit without its credit or a minted balance
\* without the matching total_supply.
C13_AtomicSave ==
    /\ \A p \in Procs :
          LET me == procs[p]
          IN  /\ Len(me.wrote) <= 1
              /\ InMemory(p) => me.wrote = <<>>
              /\ me.pc = "done" =>
                    /\ Atomic(me).ret = Ok
                    /\ me.wrote = <<Atomic(me).store>>
              /\ me.pc \in {"failed", "trapped"} =>
                    /\ me.wrote = <<>>
                    /\ Atomic(me).ret = me.ret
                    /\ Atomic(me).store = me.start
    /\ SupplyIsSumModulo(Now)

\* C13 happens: a transfer of a non-zero amount between two accounts went
\* through its debit and its credit in memory and has saved once.
C13_Witness ==
    \E p \in Procs :
        /\ procs[p].pc = "done"
        /\ procs[p].op = "transfer"
        /\ procs[p].from # procs[p].to
        /\ procs[p].amount > 0
        /\ Len(procs[p].wrote) = 1
        /\ stable = procs[p].wrote[1]

\* Both slots hold a call that saved, and each was in memory while the other
\* was.
BothSavedInterleaved == \A p \in Procs : procs[p].pc = "done" /\ procs[p].raced

====
